---- MODULE Spec2Model ----
(***************************************************************************)
(* ESP32 internet radio: the serial CLI menu, the session state it drives  *)
(* (station, volume, speaker) and the start-up WiFi gate, for the two      *)
(* programs of the repository:                                             *)
(*   "main"  - src/src/main.cpp (table of MenuItem with bound actions)     *)
(*   "radio" - src/src/esp32InternetRadio.cpp (table of Radiostation and a *)
(*             switch on the key)                                          *)
(***************************************************************************)
EXTENDS Integers, Sequences, FiniteSets, TLC

VARIABLES
    prog,            \* which program runs: "main" or "radio"
    pc,              \* "setup", "wifi", "failed", "loop"
    wlan,            \* the network's own state, as WiFi.status() reports it
    status,          \* ConnectivityState: Disconnected/Connecting/Connected/Failed
    led,             \* LED_BUILTIN, driven by heartbeat
    currentStation,  \* int currentStation
    currentUrl,      \* const char *currentUrl
    currentVolume,   \* int currentVolume
    spkrIsOn,        \* static bool spkrIsOn of toggleSpeaker
    audioVolume,     \* the level of the engine's last setVolume
    done,            \* static bool done of loop
    lastKey,         \* the key the latest loop() iteration read, if any
    pre,             \* session state at the start of the latest iteration
    acts,            \* menu actions the latest iteration invoked
    calls,           \* engine calls of initAudio / of the latest iteration
    out,             \* what doMenu printed in the latest iteration
    iter,            \* what the latest loop() iteration did
    lastLog,         \* the latest line logged by setup / initWiFi
    selected,        \* the playable entry whose key was read last (at start: the preselected one)
    poll,            \* the while loop of the initWiFi call in progress: failed tests, lines, delay
    cbLog,           \* the latest line an audio_... event handler printed
    run              \* a run of one repeated key: its key, start state, length

vars == << prog, pc, wlan, status, led, currentStation, currentUrl,
           currentVolume, spkrIsOn, audioVolume, done,
           lastKey, pre, acts, calls, out, iter, lastLog, selected,
           poll, cbLog, run >>

session == << currentStation, currentUrl, currentVolume, spkrIsOn >>
engine  == << audioVolume >>
history == << lastKey, pre, acts, calls, out >>

-----------------------------------------------------------------------------
(* Program constants *)

MIN_VOLUME == 0
MAX_VOLUME == 21
DEFAULT_VOLUME == 10
DefaultStation == 5

\* Length of a run of one key beyond MAX_VOLUME presses (the k of MAX_VOLUME + k)
MaxExtra == 2

\* Failed tests of WiFi.status() that one initWiFi call is followed through
MaxPolls == 3

\* delay(1000) of initWiFi's while loop, in ms
WIFI_DELAY == 1000

\* The while loop of initWiFi not running: nothing tested, logged or waited for
NoPoll == [failed |-> 0, logged |-> 0, delay |-> 0]

NoKey == "none"
NoVolume == -1

-----------------------------------------------------------------------------
(* The text-to-speech demo texts (non-ASCII letters folded) *)

text_main == <<
  "Internet radio (also web radio, net radio, streaming radio, e-radio, IP radio, online radio) is a digital audio service transmitted via the Internet",
  "Als Internetradio (auch Webradio) bezeichnet man ein Internet-basiertes Angebot an Hoerfunksendungen",
  "Internet radio (anche web radio) e il termine usato per descrivere una gamma di programmi radiofonici su Internet" >>

text_radio == <<
  "Internet radio (also web radio, net radio, streaming radio, e-radio, IP radio, online radio) is a digital audio service transmitted via the Internet.",
  "Als Internetradio (auch Webradio) bezeichnet man ein Internet-basiertes Angebot an Hoerfunksendungen.",
  "Internet radio (anche web radio) e il termine usato per descrivere una gamma di programmi radiofonici su Internet." >>

\* text[i], i from 0 as in the source
text(p, i) == IF p = "main" THEN text_main[i + 1] ELSE text_radio[i + 1]

MI(k, t, a, f) == [key |-> k, txt |-> t, arg |-> a, action |-> f]

\* MenuItem menu[] of main.cpp
menu_main == <<
  MI("0", "MDR-Klassik",       "http://mdr-284350-0.cast.mdr.de/mdr/284350/0/mp3/high/stream.mp3", "playRadio"),
  MI("1", "SRF1 AG-SO",        "http://stream.srg-ssr.ch/m/regi_ag_so/mp3_128",  "playRadio"),
  MI("2", "SRF2",              "http://stream.srg-ssr.ch/m/drs2/mp3_128",        "playRadio"),
  MI("3", "SRF3",              "http://stream.srg-ssr.ch/m/drs3/mp3_128",        "playRadio"),
  MI("4", "SRF4 News",         "http://stream.srg-ssr.ch/m/drs4news/mp3_128",    "playRadio"),
  MI("5", "Swiss Classic",     "http://stream.srg-ssr.ch/m/rsc_de/mp3_128",      "playRadio"),
  MI("6", "Swiss Jazz",        "http://stream.srg-ssr.ch/m/rsj/mp3_128",         "playRadio"),
  MI("7", "SRF Musikwelle",    "http://stream.srg-ssr.ch/m/drsmw/mp3_128",       "playRadio"),
  MI("8", "Alles Blasmusik",   "http://stream.bayerwaldradio.com/allesblasmusik", "playRadio"),
  MI("9", "WKVI-AM",           "http://kvbstreams.dyndns.org:8000/wkvi-am",      "playRadio"),
  MI("a", "DLF",               "http://st01.dlf.de/dlf/01/128/mp3/stream.mp3",   "playRadio"),
  MI("b", "WDR 1 Live",        "http://www.wdr.de/wdrlive/media/einslive.m3u",   "playRadio"),
  MI("c", "SWR1 BW",           "https://liveradio.swr.de/sw282p3/swr1bw/",       "playRadio"),
  MI("d", "SWR2",              "https://liveradio.swr.de/sw282p3/swr2/",         "playRadio"),
  MI("e", "SWR3",              "https://liveradio.swr.de/sw282p3/swr3/",         "playRadio"),
  MI("f", "SWR4 BW",           "https://liveradio.swr.de/sw282p3/swr4bw/",       "playRadio"),
  MI("g", "BR Klassik",        "https://dispatcher.rndfnk.com/br/brklassik/live/mp3/mid", "playRadio"),
  MI("h", "Blues Mobile",      "https://strm112.1.fm/blues_mobile_mp3",          "playRadio"),
  MI("i", "Jazz MMX",          "http://jazz.streamr.ru/jazz-64.mp3",             "playRadio"),
  MI("j", "Radio Classique",   "http://radioclassique.ice.infomaniak.ch/radioclassique-high.mp3", "playRadio"),
  MI("k", "HIT Radio FFH MP3", "http://mp3.ffh.de/radioffh/hqlivestream.mp3",    "playRadio"),
  MI("l", "Capital London",    "http://vis.media-ice.musicradio.com/CapitalMP3", "playRadio"),
  MI("m", "ORF",               "https://orf-live.ors-shoutcast.at/vbg-q1a",      "playRadio"),
  MI("n", "Beatles Radio",     "http://www.beatlesradio.com:8000/stream/1/",     "playRadio"),
  MI("!", "Text to speach en",     text_main[1], "textToSpeachEn"),
  MI(".", "Text to speach de",     text_main[2], "textToSpeachDe"),
  MI(",", "Text to speach it",     text_main[3], "textToSpeachIt"),
  MI("t", "Test stereo channels",  "/stereotest440-445.mp3", "playMP3"),
  MI("+", "Increment volume",      "", "incrementVolume"),
  MI("-", "Decrement volume",      "", "decrementVolume"),
  MI("T", "Toggle speaker on/off", "", "toggleSpeaker"),
  MI("C", "Show current Station",  "", "showCurrentStation"),
  MI("S", "Show Menu",             "", "showMenu") >>

RS(k, n, u) == [key |-> k, txt |-> n, arg |-> u]

\* Radiostation station[] of esp32InternetRadio.cpp (name as txt, url as arg)
station_radio == <<
  RS("0", "Klassik Radio",     "http://stream.klassikradio.de/live/mp3-128/stream.klassikradio.de"),
  RS("1", "SRF1 AG-SO",        "http://stream.srg-ssr.ch/m/regi_ag_so/mp3_128"),
  RS("2", "SRF2",              "http://stream.srg-ssr.ch/m/drs2/mp3_128"),
  RS("3", "SRF3",              "http://stream.srg-ssr.ch/m/drs3/mp3_128"),
  RS("4", "SRF4 News",         "http://stream.srg-ssr.ch/m/drs4news/mp3_128"),
  RS("5", "Swiss Classic",     "http://stream.srg-ssr.ch/m/rsc_de/mp3_128"),
  RS("6", "Swiss Jazz",        "http://stream.srg-ssr.ch/m/rsj/mp3_128"),
  RS("7", "SRF Musikwelle",    "http://stream.srg-ssr.ch/m/drsmw/mp3_128"),
  RS("8", "Alles Blasmusik",   "http://stream.bayerwaldradio.com/allesblasmusik"),
  RS("9", "WKVI-AM",           "http://kvbstreams.dyndns.org:8000/wkvi-am"),
  RS("a", "DLF",               "http://st01.dlf.de/dlf/01/128/mp3/stream.mp3"),
  RS("b", "WDR 1 Live",        "http://www.wdr.de/wdrlive/media/einslive.m3u"),
  RS("c", "SWR1 BW",           "http://mp3-live.swr.de/swr1bw_m.m3u"),
  RS("d", "SWR2",              "http://mp3-live.swr.de/swr2_m.m3u"),
  RS("e", "SWR3",              "http://mp3-live.swr3.de/swr3_m.m3u"),
  RS("f", "SWR4 BW",           "http://mp3-live.swr.de/swr4bw_m.m3u"),
  RS("g", "SWR Aktuell",       "http://mp3-live.swr.de/swraktuell_m.m3u"),
  RS("h", "DasDing",           "http://mp3-live.dasding.de/dasding_m.m3u"),
  RS("i", "Jazz MMX",          "http://jazz.streamr.ru/jazz-64.mp3"),
  RS("j", "Irish Pub Radio",   "http://macslons-irish-pub-radio.com/media.asx"),
  RS("k", "HIT Radio FFH MP3", "http://mp3.ffh.de/radioffh/hqlivestream.mp3"),
  RS("l", "Capital London",    "http://vis.media-ice.musicradio.com/CapitalMP3"),
  RS("m", "ORF",               "https://orf-live.ors-shoutcast.at/vbg-q1a"),
  RS("n", "Beatles Radio",     "http://www.beatlesradio.com:8000/stream/1/"),
  RS("!", "Speech 1",              ""),
  RS(".", "Speech 2",              ""),
  RS(",", "Speech 3",              ""),
  RS("+", "Increment volume",      ""),
  RS("-", "Decrement volume",      ""),
  RS("T", "Toggle speaker on/off", ""),
  RS("C", "Show current Station",  ""),
  RS("S", "Show Menu",             "") >>

\* sizeof(menu) / sizeof(menu[0])
nbrMenuItems == Len(menu_main)
\* sizeof(station) / sizeof(station[0])
nbrRadiostations == Len(station_radio)

\* The table of program p, its size, and its entry i (from 0, as in the source)
Table(p) == IF p = "main" THEN menu_main ELSE station_radio
nbrItems(p) == IF p = "main" THEN nbrMenuItems ELSE nbrRadiostations
item(p, i) == Table(p)[i + 1]

Keys(p) == { item(p, i).key : i \in 0 .. nbrItems(p) - 1 }

-----------------------------------------------------------------------------
(* Engine calls and Serial output, as values *)

Call(op, arg, lang, vol) == [op |-> op, arg |-> arg, lang |-> lang, vol |-> vol]
SetPinout          == Call("setPinout", "", "", NoVolume)
SetVolume(v)       == Call("setVolume", "", "", v)
ConnectToHost(url) == Call("connecttohost", url, "", NoVolume)
ConnectToFS(file)  == Call("connecttoFS", file, "", NoVolume)
ConnectToSpeech(txt, lang) == Call("connecttospeech", txt, lang, NoVolume)

Tok(tag, s, u, n) == [tag |-> tag, s |-> s, u |-> u, n |-> n]
\* CLEAR_LINE: a carriage return, a line of blanks, a carriage return
CLEAR_LINE == Tok("CLEAR_LINE", "", "", 0)

Snapshot == [station |-> currentStation, url |-> currentUrl,
             volume |-> currentVolume, spkr |-> spkrIsOn]

-----------------------------------------------------------------------------
(* PresentationReporter *)

\* Serial.printf("Current Station: %s --> %s", menu[currentStation].txt, currentUrl)
showCurrentStationOut(p, st, url) ==
    << CLEAR_LINE, Tok("Current Station", item(p, st).txt, url, 0) >>

RECURSIVE menuLines_short(_, _)
\* menuLines with the loop ending one entry early: i < nbrMenuItems - 1
menuLines_short(p, i) ==
    IF i < nbrItems(p) - 1
      THEN << Tok("item", item(p, i).key, item(p, i).txt, i) >>
               \o menuLines_short(p, i + 1)
      ELSE << >>

RECURSIVE menuLines(_, _)
\* for (i = 0; i < nbrMenuItems; i++) Serial.printf("[%c] %s\n", key, txt), from i on
menuLines(p, i) ==
    IF i < nbrItems(p)
      THEN << Tok("item", item(p, i).key, item(p, i).txt, i) >> \o menuLines(p, i + 1)
      ELSE << >>

\* The title, one line per entry, the prompt
menuText(p) ==
    << Tok("TITLE", "ESP32 Web Radio", "", 0) >> \o menuLines(p, 0)
        \o << Tok("prompt", "Press a key: ", "", 0) >>

\* What showMenu prints in either program
menuText_main == menuText("main")
menuText_radio == menuText("radio")
showMenuOut(p) == IF p = "main" THEN menuText_main ELSE menuText_radio

-----------------------------------------------------------------------------
(* The menu actions; o is what doMenu has printed so far *)

\* showCurrentStation that also restarts the stream it reports
showCurrentStation_replays(o) ==
    /\ out' = o \o showCurrentStationOut(prog, currentStation, currentUrl)
    /\ calls' = << ConnectToHost(currentUrl) >>
    /\ UNCHANGED << session, engine >>

showCurrentStation(o) ==
    /\ out' = o \o showCurrentStationOut(prog, currentStation, currentUrl)
    /\ calls' = << >>
    /\ UNCHANGED << session, engine >>

showMenu(o) ==
    /\ out' = o \o showMenuOut(prog)
    /\ calls' = << >>
    /\ UNCHANGED << session, engine >>

incrementVolume_unguarded(o) ==
    /\ currentVolume' = currentVolume + 1
    /\ audioVolume' = currentVolume'
    /\ calls' = << SetVolume(currentVolume') >>
    /\ out' = o \o << CLEAR_LINE, Tok("Current Volume", "", "", currentVolume') >>
    /\ UNCHANGED << currentStation, currentUrl, spkrIsOn >>

\* incrementVolume that forgets audio.setVolume
incrementVolume_nopropagate(o) ==
    /\ currentVolume' = IF currentVolume < MAX_VOLUME
                           THEN currentVolume + 1 ELSE currentVolume
    /\ calls' = << >>
    /\ out' = o \o << CLEAR_LINE, Tok("Current Volume", "", "", currentVolume') >>
    /\ UNCHANGED << currentStation, currentUrl, spkrIsOn, audioVolume >>

\* incrementVolume with the guard currentVolume <= MAX_VOLUME
incrementVolume_lte(o) ==
    /\ IF currentVolume <= MAX_VOLUME
         THEN /\ currentVolume' = currentVolume + 1
              /\ audioVolume' = currentVolume'
              /\ calls' = << SetVolume(currentVolume') >>
         ELSE /\ UNCHANGED << currentVolume, audioVolume >>
              /\ calls' = << >>
    /\ out' = o \o << CLEAR_LINE, Tok("Current Volume", "", "", currentVolume') >>
    /\ UNCHANGED << currentStation, currentUrl, spkrIsOn >>

incrementVolume(o) ==
    /\ IF currentVolume < MAX_VOLUME
         THEN /\ currentVolume' = currentVolume + 1
              /\ audioVolume' = currentVolume'
              /\ calls' = << SetVolume(currentVolume') >>
         ELSE /\ UNCHANGED << currentVolume, audioVolume >>
              /\ calls' = << >>
    /\ out' = o \o << CLEAR_LINE, Tok("Current Volume", "", "", currentVolume') >>
    /\ UNCHANGED << currentStation, currentUrl, spkrIsOn >>

decrementVolume_unguarded(o) ==
    /\ currentVolume' = currentVolume - 1
    /\ audioVolume' = currentVolume'
    /\ calls' = << SetVolume(currentVolume') >>
    /\ out' = o \o << CLEAR_LINE, Tok("Current Volume", "", "", currentVolume') >>
    /\ UNCHANGED << currentStation, currentUrl, spkrIsOn >>

\* decrementVolume that forgets audio.setVolume
decrementVolume_nopropagate(o) ==
    /\ currentVolume' = IF currentVolume > 0 THEN currentVolume - 1 ELSE currentVolume
    /\ calls' = << >>
    /\ out' = o \o << CLEAR_LINE, Tok("Current Volume", "", "", currentVolume') >>
    /\ UNCHANGED << currentStation, currentUrl, spkrIsOn, audioVolume >>

decrementVolume(o) ==
    /\ IF currentVolume > 0
         THEN /\ currentVolume' = currentVolume - 1
              /\ audioVolume' = currentVolume'
              /\ calls' = << SetVolume(currentVolume') >>
         ELSE /\ UNCHANGED << currentVolume, audioVolume >>
              /\ calls' = << >>
    /\ out' = o \o << CLEAR_LINE, Tok("Current Volume", "", "", currentVolume') >>
    /\ UNCHANGED << currentStation, currentUrl, spkrIsOn >>

\* toggleSpeaker without the default volume on resuming from MIN_VOLUME
toggleSpeaker_nodefault(o) ==
    /\ audioVolume' = IF spkrIsOn THEN MIN_VOLUME ELSE currentVolume
    /\ calls' = << SetVolume(audioVolume') >>
    /\ spkrIsOn' = ~ spkrIsOn
    /\ out' = o \o << CLEAR_LINE,
                      Tok(IF spkrIsOn THEN "Speaker is off" ELSE "Speaker is on", "", "", 0) >>
    /\ UNCHANGED << currentStation, currentUrl, currentVolume >>

\* toggleSpeaker that turns the speaker on without audio.setVolume
toggleSpeaker_nopropagate(o) ==
    /\ IF spkrIsOn
         THEN /\ audioVolume' = MIN_VOLUME
              /\ calls' = << SetVolume(MIN_VOLUME) >>
              /\ UNCHANGED currentVolume
         ELSE /\ currentVolume' = IF currentVolume = MIN_VOLUME
                                    THEN DEFAULT_VOLUME ELSE currentVolume
              /\ calls' = << >>
              /\ UNCHANGED audioVolume
    /\ spkrIsOn' = ~ spkrIsOn
    /\ out' = o \o << CLEAR_LINE,
                      Tok(IF spkrIsOn THEN "Speaker is off" ELSE "Speaker is on", "", "", 0) >>
    /\ UNCHANGED << currentStation, currentUrl >>

toggleSpeaker(o) ==
    /\ IF spkrIsOn
         THEN /\ audioVolume' = MIN_VOLUME
              /\ calls' = << SetVolume(MIN_VOLUME) >>
              /\ spkrIsOn' = FALSE
              /\ out' = o \o << CLEAR_LINE, Tok("Speaker is off", "", "", 0) >>
              /\ UNCHANGED currentVolume
         ELSE /\ currentVolume' = IF currentVolume = MIN_VOLUME
                                    THEN DEFAULT_VOLUME ELSE currentVolume
              /\ audioVolume' = currentVolume'
              /\ calls' = << SetVolume(currentVolume') >>
              /\ spkrIsOn' = TRUE
              /\ out' = o \o << CLEAR_LINE, Tok("Speaker is on", "", "", 0) >>
    /\ UNCHANGED << currentStation, currentUrl >>

\* One fire-and-forget connectto... request c and nothing else
Connect(c, o) ==
    /\ calls' = << c >>
    /\ out' = o
    /\ UNCHANGED << session, audioVolume >>

playRadio(txt, o) == Connect(ConnectToHost(txt), o)
playMP3(file, o) == Connect(ConnectToFS(file), o)
\* textToSpeachDe with the language tag of textToSpeachEn
textToSpeachDe_en(txt, o) == Connect(ConnectToSpeech(txt, "en"), o)
textToSpeachDe(txt, o) == Connect(ConnectToSpeech(txt, "de"), o)
textToSpeachEn(txt, o) == Connect(ConnectToSpeech(txt, "en"), o)
textToSpeachIt(txt, o) == Connect(ConnectToSpeech(txt, "it"), o)

\* the default case counting the entries from 1
selectStation_offbyone(i, o) ==
    /\ currentStation' = i + 1
    /\ currentUrl' = item("radio", i).arg
    /\ calls' = << ConnectToHost(currentUrl') >>
    /\ out' = o
    /\ UNCHANGED << currentVolume, spkrIsOn, audioVolume >>

\* default case of the switch of esp32InternetRadio.cpp
selectStation(i, o) ==
    /\ currentStation' = i
    /\ currentUrl' = item("radio", i).arg
    /\ calls' = << ConnectToHost(currentUrl') >>
    /\ out' = o
    /\ UNCHANGED << currentVolume, spkrIsOn, audioVolume >>

-----------------------------------------------------------------------------
(* CommandDispatcher *)

RECURSIVE find_nomatch0(_, _, _)
\* find with 0, the first entry, as the answer for a key that matches none
find_nomatch0(p, key, i) ==
    IF i < nbrItems(p)
      THEN IF key = item(p, i).key THEN i ELSE find_nomatch0(p, key, i + 1)
      ELSE 0

RECURSIVE find_offbyone(_, _, _)
\* find with the loop ending one entry early: i < nbrMenuItems - 1
find_offbyone(p, key, i) ==
    IF i < nbrItems(p) - 1
      THEN IF key = item(p, i).key THEN i ELSE find_offbyone(p, key, i + 1)
      ELSE nbrItems(p)

RECURSIVE find(_, _, _)
\* for (i = ...; i < nbrMenuItems; i++) if (key == menu[i].key) { ...; break; }
\* the first i from i on whose key is key, or the table's size when there is none
find(p, key, i) ==
    IF i < nbrItems(p)
      THEN IF key = item(p, i).key THEN i ELSE find(p, key, i + 1)
      ELSE nbrItems(p)

\* menu[i].action(menu[i].arg) of main.cpp
invoke(it, o) ==
    CASE it.action = "playRadio"          -> playRadio(it.arg, o)
      [] it.action = "playMP3"            -> playMP3(it.arg, o)
      [] it.action = "textToSpeachEn"     -> textToSpeachEn(it.arg, o)
      [] it.action = "textToSpeachDe"     -> textToSpeachDe(it.arg, o)
      [] it.action = "textToSpeachIt"     -> textToSpeachIt(it.arg, o)
      [] it.action = "incrementVolume"    -> incrementVolume(o)
      [] it.action = "decrementVolume"    -> decrementVolume(o)
      [] it.action = "toggleSpeaker"      -> toggleSpeaker(o)
      [] it.action = "showCurrentStation" -> showCurrentStation(o)
      [] it.action = "showMenu"           -> showMenu(o)

\* An unmatched key answered with a message
ignored_reports(o) ==
    /\ acts' = << >>
    /\ calls' = << >>
    /\ out' = o \o << Tok("Unknown key", "", "", 0) >>
    /\ UNCHANGED << session, engine >>

\* An unmatched key: the loop ends without a call
ignored(o) ==
    /\ acts' = << >>
    /\ calls' = << >>
    /\ out' = o
    /\ UNCHANGED << session, engine >>

doMenu_main(key) ==
    \E i \in { find("main", key, 0) } :    \* where the for loop stops
    /\ lastKey' = key
    /\ pre' = Snapshot
    /\ IF i < nbrMenuItems
         THEN /\ acts' = << [idx |-> i, action |-> item("main", i).action] >>
              /\ invoke(item("main", i), << CLEAR_LINE >>)
         ELSE ignored(<< CLEAR_LINE >>)

\* The name of the case the switch of esp32InternetRadio.cpp takes for key
switchCase(key) ==
    CASE key = "S" -> "showMenu"
      [] key = "C" -> "showCurrentStation"
      [] key = "T" -> "toggleSpeaker"
      [] key = "!" -> "connecttospeech en"
      [] key = "." -> "connecttospeech de"
      [] key = "," -> "connecttospeech it"
      [] key = "+" -> "incrementVolume"
      [] key = "-" -> "decrementVolume"
      [] OTHER     -> "default"

doMenu_radio(key) ==
    \E i \in { find("radio", key, 0) } :   \* where the for loop stops
    LET o == << CLEAR_LINE >> IN
    /\ lastKey' = key
    /\ pre' = Snapshot
    /\ IF i < nbrRadiostations
         THEN /\ acts' = << [idx |-> i, action |-> switchCase(key)] >>
              /\ CASE key = "S" -> showMenu(o)
                   [] key = "C" -> showCurrentStation(o)
                   [] key = "T" -> toggleSpeaker(o)
                   [] key = "!" -> Connect(ConnectToSpeech(text("radio", 0), "en"), o)
                   [] key = "." -> Connect(ConnectToSpeech(text("radio", 1), "de"), o)
                   [] key = "," -> Connect(ConnectToSpeech(text("radio", 2), "it"), o)
                   [] key = "+" -> incrementVolume(o)
                   [] key = "-" -> decrementVolume(o)
                   [] OTHER     -> selectStation(i, o)
         ELSE ignored(o)

\* Entry i of program p plays a stream or a local file
IsPlayable(p, i) ==
    IF p = "main" THEN item(p, i).action \in {"playRadio", "playMP3"}
                  ELSE item(p, i).arg # ""

\* doMenu of the running program; selected keeps the last playable entry asked for
doMenu(key) ==
    /\ IF prog = "main" THEN doMenu_main(key) ELSE doMenu_radio(key)
    /\ \E i \in { find(prog, key, 0) } :
          selected' = IF i < nbrItems(prog) /\ IsPlayable(prog, i) THEN i ELSE selected

-----------------------------------------------------------------------------
(* Start-up: the WiFi gate and initAudio *)

initAudio ==
    /\ audioVolume' = currentVolume
    /\ calls' = << SetPinout, SetVolume(currentVolume), ConnectToHost(currentUrl) >>
    /\ UNCHANGED << session, lastKey, pre, acts, out >>

\* The network comes up or goes down while the program is still starting
wlanChanges ==
    /\ pc \in {"setup", "wifi"}
    /\ wlan' = IF wlan = "WL_CONNECTED" THEN "WL_DISCONNECTED" ELSE "WL_CONNECTED"
    /\ UNCHANGED << prog, pc, status, led, session, engine, done, history, iter,
                    lastLog, run, selected, poll, cbLog >>

\* extern bool initWiFi(ssid, password, hostname): one attempt, true when connected
initWiFi_main == wlan = "WL_CONNECTED"

\* setup() of main.cpp without the while(true) of its failure branch
setup_main_proceeds ==
    /\ prog = "main"
    /\ pc = "setup"
    /\ status' = IF initWiFi_main THEN "Connected" ELSE "Failed"
    /\ lastLog' = IF initWiFi_main THEN "Connection Details"
                                   ELSE "==> Connection to WLAN failed"
    /\ initAudio
    /\ pc' = "loop"
    /\ UNCHANGED << prog, wlan, led, done, iter, run, selected, poll, cbLog >>

\* setup() of main.cpp; its while(true) heartbeat(...) is pc = "failed"
setup_main ==
    /\ prog = "main"
    /\ pc = "setup"
    /\ IF ~ initWiFi_main
         THEN /\ status' = "Failed"
              /\ lastLog' = "==> Connection to WLAN failed"
              /\ pc' = "failed"
              /\ UNCHANGED << session, engine, history >>
         ELSE /\ status' = "Connected"
              /\ lastLog' = "Connection Details"
              /\ initAudio
              /\ pc' = "loop"
    /\ UNCHANGED << prog, wlan, led, done, iter, run, selected, poll, cbLog >>

\* while(true) heartbeat(LED_BUILTIN, 3, 1, 5): the LED blinks, for ever
heartbeat ==
    /\ pc = "failed"
    /\ led' = ~ led
    /\ UNCHANGED << prog, pc, wlan, status, session, engine, done, history, iter,
                    lastLog, run, selected, poll, cbLog >>

\* setup() of esp32InternetRadio.cpp up to the while loop of initWiFi
setup_radio ==
    /\ prog = "radio"
    /\ pc = "setup"
    /\ lastLog' = "Connecting to WiFi"
    /\ status' = "Connecting"
    /\ pc' = "wifi"
    /\ UNCHANGED << prog, wlan, led, session, engine, done, history, iter, run,
                    selected, poll, cbLog >>

\* initWiFi leaving its loop after the first test, connected or not
initWiFi_radio_anyway ==
    /\ prog = "radio"
    /\ pc = "wifi"
    /\ lastLog' = "Connected"
    /\ status' = IF wlan = "WL_CONNECTED" THEN "Connected" ELSE "Connecting"
    /\ initAudio
    /\ pc' = "loop"
    /\ UNCHANGED << prog, wlan, led, done, iter, run, selected, poll, cbLog >>

\* initWiFi whose while loop waits and tests again without a line
initWiFi_radio_silent ==
    /\ prog = "radio"
    /\ pc = "wifi"
    /\ IF wlan # "WL_CONNECTED"
         THEN /\ poll.failed < MaxPolls
              /\ poll' = [poll EXCEPT !.failed = @ + 1, !.delay = @ + WIFI_DELAY]
              /\ UNCHANGED << pc, status, lastLog, session, engine, history >>
         ELSE /\ lastLog' = "Connected"
              /\ status' = "Connected"
              /\ poll' = NoPoll
              /\ initAudio
              /\ pc' = "loop"
    /\ UNCHANGED << prog, wlan, led, done, iter, run, selected, cbLog >>

\* One test of while (WiFi.status() != WL_CONNECTED) in initWiFi, with the body
\* it runs or, on leaving the loop, the rest of initWiFi and of setup()
initWiFi_radio ==
    /\ prog = "radio"
    /\ pc = "wifi"
    /\ IF wlan # "WL_CONNECTED"
         THEN /\ poll.failed < MaxPolls
              /\ lastLog' = "...Connecting to WiFi"
              /\ poll' = [failed |-> poll.failed + 1,
                          logged |-> poll.logged + 1,
                          delay  |-> poll.delay + WIFI_DELAY]
              /\ UNCHANGED << pc, status, session, engine, history >>
         ELSE /\ lastLog' = "Connected"
              /\ status' = "Connected"
              /\ poll' = NoPoll
              /\ initAudio
              /\ pc' = "loop"
    /\ UNCHANGED << prog, wlan, led, done, iter, run, selected, cbLog >>

-----------------------------------------------------------------------------
(* The control loop *)

\* millis() - msPrevious >= msWait
waitIsOver(elapsed, msWait) == elapsed >= msWait

\* loop() with audio.loop() in the else branch of if (Serial.available())
loop_service_when_idle(elapsed, avail, key) ==
    /\ pc = "loop"
    /\ LET show == ~ done /\ waitIsOver(elapsed, 5000) IN
       /\ done' = (done \/ show)
       /\ iter' = [svc |-> IF avail THEN 0 ELSE 1,
                   menu |-> IF show THEN showMenuOut(prog) ELSE << >>,
                   read |-> IF avail THEN 1 ELSE 0]
    /\ IF avail
         THEN doMenu(key)
         ELSE /\ lastKey' = NoKey
              /\ pre' = Snapshot
              /\ ignored(<< >>)
              /\ UNCHANGED selected
    /\ UNCHANGED << prog, pc, wlan, status, led, lastLog, run, poll, cbLog >>

\* One iteration of loop(): audio.loop(), the menu once after 5 s, one key if any
loop(elapsed, avail, key) ==
    /\ pc = "loop"
    /\ LET show == ~ done /\ waitIsOver(elapsed, 5000) IN
       /\ done' = (done \/ show)
       /\ iter' = [svc |-> 1, menu |-> IF show THEN showMenuOut(prog) ELSE << >>,
                   read |-> IF avail THEN 1 ELSE 0]
    /\ IF avail
         THEN doMenu(key)
         ELSE /\ lastKey' = NoKey
              /\ pre' = Snapshot
              /\ ignored(<< >>)
              /\ UNCHANGED selected
    /\ UNCHANGED << prog, pc, wlan, status, led, lastLog, run, poll, cbLog >>

-----------------------------------------------------------------------------
(* The optional event handlers the engine calls from inside audio.loop() *)

\* Serial.print(label); Serial.println(info);
event(label, info) ==
    /\ pc = "loop"
    /\ cbLog' = << Tok(label, info, "", 0) >>
    /\ UNCHANGED << prog, pc, wlan, status, led, session, engine, done, history,
                    iter, lastLog, selected, poll, run >>

\* audio_eof_mp3 that plays the current station again when a file has ended
audio_eof_mp3_replays(info) ==
    /\ pc = "loop"
    /\ cbLog' = << Tok("eof_mp3     ", info, "", 0) >>
    /\ calls' = << ConnectToHost(currentUrl) >>
    /\ UNCHANGED << prog, pc, wlan, status, led, session, engine, done, lastKey,
                    pre, acts, out, iter, lastLog, selected, poll, run >>

audio_info(info)            == event("info        ", info)
audio_id3data(info)         == event("id3data     ", info)
audio_eof_mp3(info)         == event("eof_mp3     ", info)
audio_showstation(info)     == event("station     ", info)
audio_showstreaminfo(info)  == event("streaminfo  ", info)
audio_showstreamtitle(info) == event("streamtitle ", info)
audio_bitrate(info)         == event("bitrate     ", info)
audio_commercial(info)      == event("commercial  ", info)
audio_icyurl(info)          == event("icyurl      ", info)
audio_lasthost(info)        == event("lasthost    ", info)
audio_eof_speech(info)      == event("eof_speech  ", info)

\* The labels the handlers print in front of the engine's text
EventLabels ==
    { "info        ", "id3data     ", "eof_mp3     ", "station     ",
      "streaminfo  ", "streamtitle ", "bitrate     ", "commercial  ",
      "icyurl      ", "lasthost    ", "eof_speech  " }

-----------------------------------------------------------------------------
(* The program *)

Programs == {"main", "radio"}

\* Characters the operator types: the first, the preselected, another and the last
\* station, every other key of either menu, and a character that is no key
Keyboard == {"0", "3", "5", "n", "t", "!", ".", ",", "+", "-", "T", "C", "S", "x"}

\* Elapsed times millis() - msPrevious that loop() may see
Elapsed == {0, 5000}

Init ==
    /\ prog \in Programs
    /\ pc = "setup"
    /\ wlan = "WL_DISCONNECTED"
    /\ status = "Disconnected"
    /\ led = FALSE
    /\ currentStation = DefaultStation
    /\ currentUrl = item(prog, currentStation).arg
    /\ currentVolume = DEFAULT_VOLUME
    /\ spkrIsOn = TRUE
    /\ audioVolume = NoVolume
    /\ done = FALSE
    /\ lastKey = NoKey
    /\ pre = Snapshot
    /\ acts = << >>
    /\ calls = << >>
    /\ out = << >>
    /\ iter = [svc |-> 0, menu |-> << >>, read |-> 0]
    /\ lastLog = ""
    /\ selected = DefaultStation
    /\ poll = NoPoll
    /\ cbLog = << >>
    /\ run = [key |-> NoKey, start |-> Snapshot, len |-> 0]

Next ==
    \/ wlanChanges
    \/ setup_main
    \/ heartbeat
    \/ setup_radio
    \/ initWiFi_radio
    \/ \E e \in Elapsed : loop(e, FALSE, NoKey)
    \/ \E e \in Elapsed, key \in Keyboard : loop(e, TRUE, key)

Spec == Init /\ [][Next]_vars

\* setup() runs on: a step of setup that can be taken is taken
SpecFair ==
    /\ Spec
    /\ WF_vars(setup_main)
    /\ WF_vars(setup_radio)
    /\ WF_vars(initWiFi_radio)

-----------------------------------------------------------------------------
(* The program with the engine's events: between two iterations of loop()   *)
(* any handler may have been called, any number of times, in any order      *)

\* A text the engine hands to a handler
Infos == {"128000"}

\* One key of each kind of command, and a character that is no key
EventKeys == {"3", "!", "+", "T", "C", "x"}

NextEvents ==
    \/ wlanChanges
    \/ setup_main
    \/ heartbeat
    \/ setup_radio
    \/ initWiFi_radio
    \/ \E e \in Elapsed : loop(e, FALSE, NoKey)
    \/ \E e \in Elapsed, key \in EventKeys : loop(e, TRUE, key)
    \/ \E info \in Infos : audio_info(info)
    \/ \E info \in Infos : audio_id3data(info)
    \/ \E info \in Infos : audio_eof_mp3(info)
    \/ \E info \in Infos : audio_showstation(info)
    \/ \E info \in Infos : audio_showstreaminfo(info)
    \/ \E info \in Infos : audio_showstreamtitle(info)
    \/ \E info \in Infos : audio_bitrate(info)
    \/ \E info \in Infos : audio_commercial(info)
    \/ \E info \in Infos : audio_icyurl(info)
    \/ \E info \in Infos : audio_lasthost(info)
    \/ \E info \in Infos : audio_eof_speech(info)

SpecEvents == Init /\ [][NextEvents]_vars

-----------------------------------------------------------------------------
(* Runs of one key: the same key pressed again and again from a state the   *)
(* running program can be in (any volume, speaker on or off)                *)

RunLimit == MAX_VOLUME + MaxExtra

InitRun ==
    /\ prog \in Programs
    /\ pc = "loop"
    /\ wlan = "WL_CONNECTED"
    /\ status = "Connected"
    /\ led = FALSE
    /\ currentStation = DefaultStation
    /\ currentUrl = item(prog, currentStation).arg
    /\ currentVolume \in MIN_VOLUME .. MAX_VOLUME
    /\ spkrIsOn \in BOOLEAN
    /\ audioVolume = IF spkrIsOn THEN currentVolume ELSE MIN_VOLUME
    /\ done = TRUE
    /\ lastKey = NoKey
    /\ pre = Snapshot
    /\ acts = << >>
    /\ calls = << >>
    /\ out = << >>
    /\ iter = [svc |-> 1, menu |-> << >>, read |-> 0]
    /\ lastLog = IF prog = "main" THEN "Connection Details" ELSE "Connected"
    /\ selected = DefaultStation
    /\ poll = NoPoll
    /\ cbLog = << >>
    /\ run = [key |-> NoKey, start |-> Snapshot, len |-> 0]

\* One more loop() iteration that reads key, in a run of that key
press(key) ==
    /\ run.key \in {NoKey, key}
    /\ run.len < RunLimit
    /\ run' = [run EXCEPT !.key = key, !.len = @ + 1]
    /\ pc = "loop"
    /\ iter' = [svc |-> 1, menu |-> << >>, read |-> 1]
    /\ doMenu(key)
    /\ UNCHANGED << prog, pc, wlan, status, led, done, lastLog, poll, cbLog >>

NextRun ==
    \/ press("+")
    \/ press("-")
    \/ press("T")

SpecRun == InitRun /\ [][NextRun]_vars

-----------------------------------------------------------------------------
(* Properties *)

\* The latest loop() iteration read a key and ran doMenu on it
Dispatched == lastKey # NoKey

\* The play call that entry i of program p stands for
PlayCall(p, i) ==
    IF p = "main" /\ item(p, i).action = "playMP3"
      THEN ConnectToFS(item(p, i).arg)
      ELSE ConnectToHost(item(p, i).arg)

\* Every key of the whole table of p is found at its own entry
KeysResolve(p) == \A i \in 0 .. nbrItems(p) - 1 : find(p, item(p, i).key, 0) = i

\* C1: a symbol that is the key of no entry leaves currentStation, currentUrl,
\* currentVolume and spkrIsOn as they were and makes no engine call.
C1_UnknownKeyNoEffect ==
    (Dispatched /\ lastKey \notin Keys(prog)) =>
        /\ Snapshot = pre
        /\ calls = << >>
        /\ acts = << >>

C1_Witness ==
    /\ lastKey = "t"
    /\ prog = "radio"
    /\ ~ spkrIsOn
    /\ currentVolume # DEFAULT_VOLUME

\* C2: the key of a stream or local-file entry sets currentStation to that entry's
\* position and makes exactly one play call, with that entry's parameter.
C2_PlaySelects ==
    \A i \in 0 .. nbrItems(prog) - 1 :
        (lastKey = item(prog, i).key /\ IsPlayable(prog, i)) =>
            /\ currentStation = i
            /\ calls = << PlayCall(prog, i) >>

\* C3: no key is read, no doMenu runs and the control loop is not entered unless
\* the connectivity state is Connected (and the network had reported connected).
C3_LoopOnlyWhenConnected ==
    (pc = "loop" \/ Dispatched \/ iter.svc > 0 \/ iter.read > 0) =>
        /\ status = "Connected"
        /\ wlan = "WL_CONNECTED"

C3_Witness ==
    /\ Dispatched
    /\ status = "Connected"
    /\ calls # << >>

\* C4: once initWiFi has failed the program is in its failure loop and stays
\* there, every step being one more heartbeat; no engine call has been or is
\* made (no initAudio, no play), no loop() iteration runs and no key is read.
C4_FailedForEver ==
    /\ [](pc = "failed" => ENABLED heartbeat)
    /\ [][ /\ (status' = "Failed") =>
                /\ pc' = "failed"
                /\ calls' = << >>
                /\ audioVolume' = NoVolume
                /\ iter'.svc = 0
                /\ lastKey' = NoKey
           /\ (pc = "failed") => (pc' = "failed" /\ led' # led) ]_vars

C4_Witness ==
    /\ pc = "failed"
    /\ status = "Failed"
    /\ led

\* C5: whenever the speaker is off, the volume last commanded to the engine is 0.
C5_MutedMeansZero == (~ spkrIsOn) => audioVolume = 0

\* C6: two toggleSpeaker in a row (an even number of them) give back the speaker
\* state and the volume they started from, except that a start volume of 0 comes
\* back as DEFAULT_VOLUME (10).
C6_ToggleTwice ==
    (run.key = "T" /\ run.len > 0 /\ run.len % 2 = 0) =>
        /\ spkrIsOn = run.start.spkr
        /\ currentVolume = IF run.start.volume # 0 THEN run.start.volume
                                                   ELSE DEFAULT_VOLUME

C6_Witness ==
    /\ run.key = "T"
    /\ run.len = 2
    /\ run.start.volume = 0
    /\ currentVolume = DEFAULT_VOLUME

\* C7: MAX_VOLUME or more incrementVolume in a row from any start volume end at
\* MAX_VOLUME (21); no increment takes the volume above it or below the start.
C7_IncrementSaturates ==
    (run.key = "+") =>
        /\ currentVolume <= MAX_VOLUME
        /\ currentVolume >= run.start.volume
        /\ (run.len >= MAX_VOLUME) => currentVolume = MAX_VOLUME

C7_Witness ==
    /\ run.key = "+"
    /\ run.start.volume = 0
    /\ run.len > MAX_VOLUME
    /\ currentVolume = MAX_VOLUME

\* C8: decrementVolume at least start-volume times in a row ends at 0, and the
\* volume is never negative on the way.
C8_DecrementToZero ==
    (run.key = "-") =>
        /\ currentVolume >= 0
        /\ (run.len >= run.start.volume) => currentVolume = 0

C8_Witness ==
    /\ run.key = "-"
    /\ run.start.volume = MAX_VOLUME
    /\ run.len > MAX_VOLUME
    /\ currentVolume = 0

\* The action the table of p binds to entry i: the MenuItem's action in main.cpp,
\* and in esp32InternetRadio.cpp what the entry's name announces
BoundAction(p, i) ==
    IF p = "main" THEN item(p, i).action
    ELSE LET n == item(p, i).txt IN
         CASE n = "Show Menu"             -> "showMenu"
           [] n = "Show current Station"  -> "showCurrentStation"
           [] n = "Toggle speaker on/off" -> "toggleSpeaker"
           [] n = "Speech 1"              -> "connecttospeech en"
           [] n = "Speech 2"              -> "connecttospeech de"
           [] n = "Speech 3"              -> "connecttospeech it"
           [] n = "Increment volume"      -> "incrementVolume"
           [] n = "Decrement volume"      -> "decrementVolume"
           [] OTHER                       -> "default"

\* C9: for a symbol of the table one doMenu invokes exactly one action, once: that
\* of the entry whose key is the symbol (every key of the table resolving to its
\* own entry), and makes at most one engine call.
C9_ExactlyOneAction ==
    /\ KeysResolve(prog)
    /\ (Dispatched /\ lastKey \in Keys(prog)) =>
           /\ Len(acts) = 1
           /\ acts[1].idx \in 0 .. nbrItems(prog) - 1
           /\ item(prog, acts[1].idx).key = lastKey
           /\ acts[1].action = BoundAction(prog, acts[1].idx)
           /\ Len(calls) <= 1

C9_Witness ==
    /\ lastKey = "S"
    /\ acts = << [idx |-> nbrItems(prog) - 1, action |-> "showMenu"] >>
    /\ prog = "radio"

\* The categories of side effect of the latest doMenu: a change of the session
\* state, an engine call, a line printed (beyond doMenu's own CLEAR_LINE)
Categories ==
    (IF Snapshot # pre THEN {"state"} ELSE {})
        \cup (IF calls # << >> THEN {"engine"} ELSE {})
        \cup (IF Len(out) > 1 THEN {"render"} ELSE {})

\* C10, as claimed: the side effects of one doMenu never fall in more than one
\* category, and for a symbol of the table in exactly one.
C10_OneCategory ==
    /\ Dispatched => Cardinality(Categories) <= 1
    /\ (Dispatched /\ lastKey \in Keys(prog)) => Cardinality(Categories) = 1

\* C10, amended: one doMenu runs at most one action and makes at most one engine
\* call; show actions only print, speech actions only call the engine, an unknown
\* symbol does neither and changes nothing; but toggleSpeaker changes state, calls
\* setVolume and prints, increment/decrementVolume do all three unless at the
\* bound (then they only print), and a play action calls the engine, without
\* printing, and in esp32InternetRadio.cpp may change currentStation as well.
C10_CategoriesPerAction ==
    Dispatched =>
        /\ Len(acts) <= 1
        /\ Len(calls) <= 1
        /\ (acts = << >>) => Categories = {}
        /\ (acts # << >>) =>
             LET a == acts[1].action IN
             /\ a \in {"showMenu", "showCurrentStation"} => Categories = {"render"}
             /\ a \in {"textToSpeachEn", "textToSpeachDe", "textToSpeachIt",
                       "connecttospeech en", "connecttospeech de",
                       "connecttospeech it"} => Categories = {"engine"}
             /\ a = "toggleSpeaker" => Categories = {"state", "engine", "render"}
             /\ a \in {"incrementVolume", "decrementVolume"} =>
                    Categories \in {{"render"}, {"state", "engine", "render"}}
             /\ a \in {"playRadio", "playMP3"} => Categories = {"engine"}
             /\ a = "default" => Categories \in {{"engine"}, {"state", "engine"}}

C10_Witness ==
    /\ lastKey = "+"
    /\ Categories = {"state", "engine", "render"}

\* C11, as claimed: showCurrentStation prints the name and the parameter of one
\* entry, the one at currentStation, and that entry is the playable entry that was
\* selected last.
C11_ShowsLastSelected ==
    (lastKey = "C") =>
        /\ out = << CLEAR_LINE, CLEAR_LINE,
                    Tok("Current Station", item(prog, currentStation).txt,
                        item(prog, currentStation).arg, 0) >>
        /\ currentStation = selected

\* The lines of a listing that show an entry
IsItemLine(t) == t.tag = "item"
ItemLines(seq) == SelectSeq(seq, IsItemLine)

\* seq is the title, then one line per entry of the table of p with its key and
\* its name, in the table's order, then the prompt
IsMenuListing(p, seq) ==
    /\ Len(seq) = nbrItems(p) + 2
    /\ seq[1].tag = "TITLE"
    /\ seq[Len(seq)].tag = "prompt"
    /\ Len(ItemLines(seq)) = nbrItems(p)
    /\ \A i \in 0 .. nbrItems(p) - 1 :
           /\ seq[i + 2].tag = "item"
           /\ seq[i + 2].s = item(p, i).key
           /\ seq[i + 2].u = item(p, i).txt

\* C12: showMenu, on key 'S' and once from loop(), prints one line per entry with
\* its key and name, in table order, every entry once, none left out or repeated.
C12_MenuListsEveryEntry ==
    /\ (lastKey = "S") => (out[1] = CLEAR_LINE /\ IsMenuListing(prog, Tail(out)))
    /\ (iter.menu # << >>) => IsMenuListing(prog, iter.menu)

C12_Witness ==
    /\ lastKey = "S"
    /\ prog = "main"
    /\ Len(out) = nbrMenuItems + 3
    /\ out[nbrMenuItems + 2].s = "S"

\* C13: every loop() iteration calls audio.loop() exactly once, key pending or
\* not, and reads and dispatches at most one key.
C13_OneServiceOneKey ==
    (pc = "loop" /\ (iter.svc > 0 \/ iter.read > 0 \/ Dispatched)) =>
        /\ iter.svc = 1
        /\ iter.read \in {0, 1}
        /\ (iter.read = 1) <=> Dispatched
        /\ Len(acts) <= iter.read

C13_Witness ==
    /\ iter.svc = 1
    /\ iter.read = 0
    /\ done
    /\ currentVolume # DEFAULT_VOLUME

C15_VolumeInRange == currentVolume \in MIN_VOLUME .. MAX_VOLUME

C15_Witness ==
    /\ currentVolume = MIN_VOLUME
    /\ lastKey = "-"
    /\ pre.volume = MIN_VOLUME
    /\ ~ spkrIsOn

\* C16: from initAudio on, whenever the speaker is on the volume last commanded to
\* the engine is currentVolume.
C16_EngineFollowsVolume ==
    (pc = "loop" /\ spkrIsOn) => audioVolume = currentVolume

C16_Witness ==
    /\ spkrIsOn
    /\ lastKey = "+"
    /\ pre.volume = MAX_VOLUME
    /\ calls = << >>
    /\ audioVolume = MAX_VOLUME

\* C17: right after a toggleSpeaker that turns the speaker on, the engine has been
\* commanded to currentVolume, which is at least 1: from 0 it became DEFAULT_VOLUME.
C17_OnIsAudible ==
    (lastKey = "T" /\ spkrIsOn) =>
        /\ calls = << SetVolume(currentVolume) >>
        /\ audioVolume = currentVolume
        /\ currentVolume >= 1
        /\ (pre.volume = MIN_VOLUME) => currentVolume = DEFAULT_VOLUME

C17_Witness ==
    /\ lastKey = "T"
    /\ spkrIsOn
    /\ pre.volume = MIN_VOLUME
    /\ audioVolume = DEFAULT_VOLUME

\* C18: currentStation starts at 5 and is always the index of an entry of the
\* table that plays a stream or a file.
C18_StationIsPlayable ==
    /\ (pc = "setup") => currentStation = DefaultStation
    /\ currentStation \in 0 .. nbrItems(prog) - 1
    /\ IsPlayable(prog, currentStation)

C18_Witness ==
    /\ prog = "radio"
    /\ lastKey = "n"
    /\ currentStation = 23

\* The demo text and the language a speech key stands for
SpeechKeys == {"!", ".", ","}
SpeechIndex(key) == CASE key = "!" -> 0 [] key = "." -> 1 [] key = "," -> 2
SpeechLang(key) == CASE key = "!" -> "en" [] key = "." -> "de" [] key = "," -> "it"

\* C19: a speech key makes exactly one speech call to the engine, with the text of
\* its entry and its language (en, de, it), and leaves the session state as it was.
C19_SpeakOnlySpeaks ==
    (lastKey \in SpeechKeys) =>
        /\ calls = << ConnectToSpeech(text(prog, SpeechIndex(lastKey)),
                                      SpeechLang(lastKey)) >>
        /\ (prog = "main") =>
               item(prog, acts[1].idx).arg = text(prog, SpeechIndex(lastKey))
        /\ Snapshot = pre

C19_Witness ==
    /\ lastKey = "."
    /\ prog = "main"
    /\ Len(calls) = 1
    /\ calls[1].lang = "de"

\* C20: showCurrentStation and showMenu leave the session state as it was and make
\* no engine call.
C20_ShowIsReadOnly ==
    (lastKey \in {"C", "S"}) =>
        /\ Snapshot = pre
        /\ calls = << >>
        /\ Len(out) > 1

C20_Witness ==
    /\ lastKey = "C"
    /\ ~ spkrIsOn
    /\ Len(out) = 3
    /\ prog = "radio"
    /\ currentStation # DefaultStation

\* initWiFi's while loop has run the audio initialisation of setup()
AudioStarts == audioVolume = NoVolume /\ audioVolume' # NoVolume

\* C21: in esp32InternetRadio.cpp every test that finds the network not connected
\* prints one line, waits the fixed delay and tests again; initAudio is never
\* reached while not connected; and when the network comes up and stays up, the
\* program, running on, gets to Connected and to loop().
C21_RetryUntilConnected ==
    /\ []((prog = "radio" /\ pc = "wifi") =>
             /\ poll.logged = poll.failed
             /\ poll.delay = WIFI_DELAY * poll.failed
             /\ status = "Connecting"
             /\ audioVolume = NoVolume)
    /\ [][(prog = "radio" /\ poll'.failed > poll.failed) =>
             /\ wlan # "WL_CONNECTED"
             /\ poll'.failed = poll.failed + 1
             /\ poll'.logged = poll.logged + 1
             /\ lastLog' = "...Connecting to WiFi"
             /\ pc' = "wifi"]_vars
    /\ [][(prog = "radio" /\ AudioStarts) =>
             /\ wlan = "WL_CONNECTED"
             /\ status' = "Connected"
             /\ pc' = "loop"]_vars
    /\ <>[](prog = "radio" /\ wlan = "WL_CONNECTED")
           => <>(pc = "loop" /\ status = "Connected")

C21_Witness ==
    /\ prog = "radio"
    /\ pc = "wifi"
    /\ poll.failed = 2
    /\ poll.logged = 2
    /\ lastLog = "...Connecting to WiFi"
    /\ wlan = "WL_CONNECTED"

\* C22: a call of an event handler of the engine only prints its label and the
\* engine's text: session state, engine volume and the program's position stay as
\* they are and no engine call is made, in whatever order and between whatever
\* commands the handlers are called.
C22_EventsOnlyLog ==
    [][(cbLog' # cbLog) =>
          /\ Len(cbLog') = 1
          /\ cbLog'[1].tag \in EventLabels
          /\ UNCHANGED << session, engine, selected >>
          /\ UNCHANGED << calls, acts, out, lastKey, pre >>
          /\ UNCHANGED << prog, pc, status, done, iter >>]_vars

C22_Witness ==
    /\ cbLog = << Tok("streamtitle ", "128000", "", 0) >>
    /\ lastKey = "T"
    /\ ~ spkrIsOn
    /\ calls = << SetVolume(MIN_VOLUME) >>
    /\ currentVolume = MAX_VOLUME

====
